---- MODULE Spec2Model ----
(***************************************************************************)
(* A model of go-fast-bernoulli (fast_bernoulli.go): the FastBernoulli     *)
(* sampler, its constructor New, its operations Trial and MultiTrial and   *)
(* the skip-count derivation resetSkipCount.                               *)
(*                                                                         *)
(* float64 values are modelled as exact rationals num/den, plus NaN.       *)
(* Comparisons follow IEEE-754 as Go implements it: every ordered          *)
(* comparison and == with a NaN operand is false, != is true.              *)
(* uint32 is modelled as an unsigned integer of Width bits, so that the    *)
(* exhaustion of a maximal skip count and the clamp are reachable.         *)
(* The random source *rand.Rand is a deterministic generator: a cyclic     *)
(* script of values of [0,1) and a position in it. The sampler holds a     *)
(* pointer to it, so the source is a state variable of its own.            *)
(***************************************************************************)
EXTENDS Integers, Sequences, FiniteSets, TLC

\* ------------------------------------------------------------- bounds
\* Bits of the unsigned skip count (uint32 in the source).
Width == 3
\* The smallest positive value the random source yields is 1 / 2^XBits.
XBits == 16
\* Period of the scripted random source.
ScriptLen == 2

MaxUint32 == 2^Width - 1

\* ------------------------------------------------------------- float64
Num(n, d) == [nan |-> FALSE, num |-> n, den |-> d]
NaN == [nan |-> TRUE, num |-> 0, den |-> 1]
Zero == Num(0, 1)
One == Num(1, 1)

\* a < b on float64: false when either operand is NaN.
Lt(a, b) == ~a.nan /\ ~b.nan /\ a.num * b.den < b.num * a.den
\* a == b on float64: false when either operand is NaN.
Eq(a, b) == ~a.nan /\ ~b.nan /\ a.num * b.den = b.num * a.den
\* a != b on float64: true when either operand is NaN.
Ne(a, b) == ~Eq(a, b)
\* 1.0 - p
OneMinus(p) == IF p.nan THEN NaN ELSE Num(p.den - p.num, p.den)

\* The probabilities New is called with: below 0, 0, inside (0,1), 1,
\* above 1, and NaN. The two inside (0,1) have 1 - probability a power of
\* 1/2, which keeps the powers FloorLogFrom compares small.
Probabilities ==
    {Num(-1, 4), Zero, Num(1, 2), Num(3, 4), One, Num(5, 4), NaN}

\* The values rand.Float64 yields, all in [0,1).
Draws ==
    {Zero, Num(1, 2^XBits), Num(1, 4), Num(3, 4)}

\* The random sources: every cyclic script of ScriptLen draws.
Scripts == [0 .. ScriptLen - 1 -> Draws]

\* r.Float64(): the value at the position, and the source advanced.
Float64(r) ==
    [x |-> r.script[r.pos],
     r |-> [r EXCEPT !.pos = (r.pos + 1) % ScriptLen]]

\* ------------------------------------------------- the derived float
\* 1 / math.Log(1.0 - probability), kept as the base 1 - probability
\* whose inverse logarithm it is.
InvLog(p) == [base |-> OneMinus(p)]

\* floor(ln(x) / ln(q)) for 0 < x < 1 and 0 < q < 1: the largest n with
\* q^n >= x, counted up from n.
RECURSIVE FloorLogFrom(_, _, _)
FloorLogFrom(x, q, n) ==
    IF x.num * q.den^(n + 1) <= x.den * q.num^(n + 1)
    THEN FloorLogFrom(x, q, n + 1)
    ELSE n

Fin(v) == [kind |-> "fin", v |-> v]
PosInf == [kind |-> "+inf", v |-> 0]
NegInf == [kind |-> "-inf", v |-> 0]
NaNVal == [kind |-> "nan", v |-> 0]

\* math.Floor(math.Log(x) * inv) for a draw x of [0,1).
FloorLogMul(x, inv) ==
    CASE inv.base.nan -> NaNVal
      [] Eq(inv.base, One) -> NegInf
      [] Eq(inv.base, Zero) -> IF Eq(x, Zero) THEN NaNVal ELSE Fin(0)
      [] OTHER -> IF Eq(x, Zero) THEN PosInf ELSE Fin(FloorLogFrom(x, inv.base, 0))

\* skipCount <= math.MaxUint32 on float64.
LeMaxUint32(v) == v.kind = "-inf" \/ (v.kind = "fin" /\ v.v <= MaxUint32)

\* uint32(skipCount) of a float64 in range.
Uint32(v) == v.v % 2^Width

\* Mutant of Clamp: the cast without the bounds check, which wraps.
ClampWrap(v) == Uint32(v)

\* The if of resetSkipCount's default case: the clamp.
Clamp(v) == IF LeMaxUint32(v) THEN Uint32(v) ELSE MaxUint32

\* ------------------------------------------------------------- sampler
\* Mutant of resetSkipCount: the skip counts of the two edge cases swapped.
resetSkipCountSwapped(f, r) ==
    CASE Eq(f.probability, Zero) ->
           [f |-> [f EXCEPT !.skipCount = 0], r |-> r]
      [] Eq(f.probability, One) ->
           [f |-> [f EXCEPT !.skipCount = MaxUint32], r |-> r]
      [] OTHER ->
           LET d == Float64(r)
               skipCount == FloorLogMul(d.x, f.invLogNotProbability)
           IN  [f |-> [f EXCEPT !.skipCount = Clamp(skipCount)], r |-> d.r]

\* Mutant of resetSkipCount: no case for probability 1, which then takes
\* the default case with its 1 / ln(0).
resetSkipCountNoCaseOne(f, r) ==
    CASE Eq(f.probability, Zero) ->
           [f |-> [f EXCEPT !.skipCount = MaxUint32], r |-> r]
      [] OTHER ->
           LET d == Float64(r)
               skipCount == FloorLogMul(d.x, f.invLogNotProbability)
           IN  [f |-> [f EXCEPT !.skipCount = Clamp(skipCount)], r |-> d.r]

\* resetSkipCount: f with a fresh skip count, and the source r it points
\* to (one draw in the default case, none when the probability is exactly
\* 0 or exactly 1).
resetSkipCount(f, r) ==
    CASE Eq(f.probability, Zero) ->
           [f |-> [f EXCEPT !.skipCount = MaxUint32], r |-> r]
      [] Eq(f.probability, One) ->
           [f |-> [f EXCEPT !.skipCount = 0], r |-> r]
      [] OTHER ->
           LET d == Float64(r)
               skipCount == FloorLogMul(d.x, f.invLogNotProbability)
           IN  [f |-> [f EXCEPT !.skipCount = Clamp(skipCount)], r |-> d.r]

\* Mutant of InvalidProbability: `probability >= 1` for `probability > 1`.
InvalidProbabilityGeOne(probability) ==
    Lt(probability, Zero) \/ Lt(One, probability) \/ Eq(probability, One)

\* The check `probability < 0 || probability > 1` of New.
InvalidProbability(probability) ==
    Lt(probability, Zero) \/ Lt(One, probability)

\* The struct New builds, before its call of resetSkipCount.
NewStruct(probability) ==
    [probability |-> probability,
     invLogNotProbability |-> InvLog(probability),
     skipCount |-> 0]

\* Mutant of TrialCall: `return true` after the derivation.
TrialCallReturnsTrue(f, r) ==
    IF f.skipCount > 0
    THEN [f |-> [f EXCEPT !.skipCount = f.skipCount - 1], r |-> r,
          ret |-> FALSE, derived |-> FALSE]
    ELSE LET g == resetSkipCount(f, r)
         IN  [f |-> g.f, r |-> g.r, ret |-> TRUE, derived |-> TRUE]

\* Mutant of TrialCall: `f.skipCount > 1` for `f.skipCount > 0`.
TrialCallOffByOne(f, r) ==
    IF f.skipCount > 1
    THEN [f |-> [f EXCEPT !.skipCount = f.skipCount - 1], r |-> r,
          ret |-> FALSE, derived |-> FALSE]
    ELSE LET g == resetSkipCount(f, r)
         IN  [f |-> g.f, r |-> g.r,
              ret |-> Ne(f.probability, Zero), derived |-> TRUE]

\* f.Trial(): the sampler and its source after the call, the value
\* returned, and whether the call derived a skip count.
TrialCall(f, r) ==
    IF f.skipCount > 0
    THEN [f |-> [f EXCEPT !.skipCount = f.skipCount - 1], r |-> r,
          ret |-> FALSE, derived |-> FALSE]
    ELSE LET g == resetSkipCount(f, r)
         IN  [f |-> g.f, r |-> g.r,
              ret |-> Ne(f.probability, Zero), derived |-> TRUE]

\* f.MultiTrial(n), as TrialCall.
MultiTrialCall(f, r, n) ==
    IF n < f.skipCount
    THEN [f |-> [f EXCEPT !.skipCount = f.skipCount - n], r |-> r,
          ret |-> FALSE, derived |-> FALSE]
    ELSE LET g == resetSkipCount(f, r)
         IN  [f |-> g.f, r |-> g.r,
              ret |-> Ne(f.probability, Zero), derived |-> TRUE]

\* f.Probability() and f.SkipCount().
Probability(f) == f.probability
SkipCount(f) == f.skipCount

\* ---------------------------------------------------------------- state
VARIABLES
    pc,         \* "start": New not called; "ok": New returned a sampler;
                \* "error": New returned nil and an error
    f,          \* the FastBernoulli New returned (the zero struct while nil)
    r,          \* the random source given to New, which f.r points to
    op,         \* the last call: "none", "New", "Trial" or "MultiTrial"
    arg,        \* the n of the last MultiTrial (0 otherwise)
    argP,       \* the probability New was called with
    ret,        \* the boolean the last Trial or MultiTrial returned
    derived,    \* whether the last call ran resetSkipCount
    pre,        \* before the last call: the sampler's skipCount and the
                \* position of the source
    anyTrial,   \* after a MultiTrial(n): whether any of n Trial() calls on
                \* a copy of the sampler before the call, with a copy of the
                \* random source, returns true (FALSE after any other call)
    streak,     \* the number of consecutive Trial() calls made since
                \* SkipCount() was streakFrom (0 after any other call)
    streakFrom  \* the SkipCount() before the first Trial() of the streak: a
                \* streak starts at the first Trial() after a call that
                \* derived a skip count or was not a Trial()

vars ==
    <<pc, f, r, op, arg, argP, ret, derived, pre, anyTrial, streak, streakFrom>>

ZeroRand == [script |-> [i \in 0 .. ScriptLen - 1 |-> Zero], pos |-> 0]
NilStruct == NewStruct(Zero)
Before(g, s) == [skipCount |-> g.skipCount, pos |-> s.pos]

\* Whether any of n consecutive Trial() calls on g with source s returns
\* true.
RECURSIVE AnyOfTrials(_, _, _)
AnyOfTrials(g, s, n) ==
    IF n = 0 THEN FALSE
    ELSE LET c == TrialCall(g, s)
         IN  c.ret \/ AnyOfTrials(c.f, c.r, n - 1)

Init ==
    /\ pc = "start"
    /\ f = NilStruct
    /\ r = ZeroRand
    /\ op = "none"
    /\ arg = 0
    /\ argP = Zero
    /\ ret = FALSE
    /\ derived = FALSE
    /\ pre = Before(NilStruct, ZeroRand)
    /\ anyTrial = FALSE
    /\ streak = 0
    /\ streakFrom = 0

\* New(probability, r) with r the source of the given script at its start.
\* A nil r makes New build a time-seeded source, which is some source of
\* Scripts as well.
New(probability, script) ==
    LET src == [script |-> script, pos |-> 0]
    IN  /\ pc = "start"
        /\ op' = "New"
        /\ argP' = probability
        /\ pre' = Before(f, src)
        /\ UNCHANGED <<arg, ret, anyTrial, streak, streakFrom>>
        /\ IF InvalidProbability(probability)
           THEN /\ pc' = "error"
                /\ derived' = FALSE
                /\ r' = src
                /\ UNCHANGED f
           ELSE LET g == resetSkipCount(NewStruct(probability), src)
                IN  /\ pc' = "ok"
                    /\ f' = g.f
                    /\ r' = g.r
                    /\ derived' = TRUE

Trial ==
    /\ pc = "ok"
    /\ LET c == TrialCall(f, r)
       IN  /\ f' = c.f
           /\ r' = c.r
           /\ ret' = c.ret
           /\ derived' = c.derived
    /\ IF op = "Trial" /\ ~derived
       THEN /\ streak' = streak + 1
            /\ streakFrom' = streakFrom
       ELSE /\ streak' = 1
            /\ streakFrom' = SkipCount(f)
    /\ op' = "Trial"
    /\ arg' = 0
    /\ pre' = Before(f, r)
    /\ anyTrial' = FALSE
    /\ UNCHANGED <<pc, argP>>

MultiTrial(n) ==
    /\ pc = "ok"
    /\ LET c == MultiTrialCall(f, r, n)
       IN  /\ f' = c.f
           /\ r' = c.r
           /\ ret' = c.ret
           /\ derived' = c.derived
    /\ streak' = 0
    /\ streakFrom' = 0
    /\ op' = "MultiTrial"
    /\ arg' = n
    /\ pre' = Before(f, r)
    /\ anyTrial' = AnyOfTrials(f, r, n)
    /\ UNCHANGED <<pc, argP>>

Next ==
    \/ \E probability \in Probabilities, script \in Scripts :
           New(probability, script)
    \/ Trial
    \/ \E n \in 0 .. MaxUint32 : MultiTrial(n)

Spec == Init /\ [][Next]_vars

\* --------------------------------------------------------------- claims
\* p is a number of the closed interval [0,1].
InUnit(p) == ~p.nan /\ 0 <= p.num /\ p.num <= p.den
\* p is a number of the open interval (0,1).
Interior(p) == ~p.nan /\ 0 < p.num /\ p.num < p.den
\* q^n >= x for numbers q and x.
GePow(q, n, x) == q.num^n * x.den >= x.num * q.den^n
\* The value the last derivation drew from the source.
Drawn == r.script[pre.pos]
\* The last call was a Trial or a MultiTrial on a sampler New returned.
Called == pc = "ok" /\ op \in {"Trial", "MultiTrial"}

\* C1: for every probability in [0,1], MultiTrial(n) returns true if and
\* only if at least one of n consecutive Trial() calls, made on a copy of
\* the sampler in the same state with the same random sequence, returns
\* true (n == 0 and n == skipCount included).
C1_MultiTrialIsAnyOfTrials ==
    (pc = "ok" /\ op = "MultiTrial" /\ InUnit(Probability(f)))
        => (ret <=> anyTrial)

\* C2: MultiTrial(0) returns false, leaves skipCount unchanged and draws
\* nothing from the random source, in every state and for every
\* probability in [0,1].
C2_MultiTrialZeroIsNoOp ==
    (pc = "ok" /\ op = "MultiTrial" /\ arg = 0 /\ InUnit(Probability(f)))
        => (~ret /\ SkipCount(f) = pre.skipCount /\ r.pos = pre.pos)

\* C3: with probability == 0 every Trial() and every MultiTrial(n) returns
\* false, whatever calls came before, also when the call exhausts the skip
\* count and derives a new one.
C3_NeverSampled ==
    (Called /\ Eq(Probability(f), Zero)) => ~ret

\* C3's case: probability 0, and a Trial() that found the skip count
\* exhausted and derived a new one.
C3_Witness ==
    /\ Called /\ Eq(Probability(f), Zero)
    /\ op = "Trial" /\ derived /\ pre.skipCount = 0

\* C4 as claimed: with probability == 0, skipCount is MaxUint32 in every
\* state, after construction and after any sequence of calls.
C4_AlwaysMaxUint32 ==
    (pc = "ok" /\ Eq(Probability(f), Zero)) => SkipCount(f) = MaxUint32

\* C4 as amended: with probability == 0, skipCount is MaxUint32 after
\* construction and after every call that derives a skip count; a call that
\* derives none leaves it at its value before the call less the trials
\* made (1 for Trial, n for MultiTrial(n)).
C4_MaxUint32WhenDerived ==
    (pc = "ok" /\ Eq(Probability(f), Zero)) =>
        IF derived
        THEN SkipCount(f) = MaxUint32
        ELSE SkipCount(f) = pre.skipCount - (IF op = "Trial" THEN 1 ELSE arg)

\* C4's case: probability 0, and a call that derives the skip count anew
\* after earlier calls had lowered it.
C4_Witness ==
    /\ pc = "ok" /\ Eq(Probability(f), Zero)
    /\ op = "MultiTrial" /\ derived
    /\ 0 < pre.skipCount /\ pre.skipCount < MaxUint32

\* C5: with probability == 1, skipCount is 0 after construction and after
\* any sequence of Trial and MultiTrial calls, and every Trial() returns
\* true.
C5_AlwaysSampled ==
    (pc = "ok" /\ Eq(Probability(f), One)) =>
        (SkipCount(f) = 0 /\ (op = "Trial" => ret))

\* C5's case: probability 1, and a Trial() has found the skip count 0,
\* derived it anew and returned true.
C5_Witness ==
    /\ pc = "ok" /\ Eq(Probability(f), One)
    /\ op = "Trial" /\ pre.skipCount = 0 /\ derived /\ ret

\* C6: New fails, returning no sampler, for every probability below 0 and
\* above 1, without deriving a skip count or drawing from the source; it
\* returns a sampler of that probability for every probability of [0,1].
C6_NewValidates ==
    (op # "none" /\ ~argP.nan) =>
        IF argP.num < 0 \/ argP.num > argP.den
        THEN pc = "error" /\ f = NilStruct /\ ~derived /\ r.pos = 0
        ELSE pc = "ok" /\ Probability(f) = argP

\* C6's case: New has failed on a probability outside [0,1].
C6_Witness ==
    op = "New" /\ pc = "error" /\ argP.num > argP.den

\* C7: New rejects a NaN probability.
C7_NaNRejected ==
    (op # "none" /\ argP.nan) => pc = "error"

\* C9: with probability != 0, a Trial() made while SkipCount() > 0 returns
\* false, lowers skipCount by 1 and draws nothing; so of the Trial() calls
\* made in a row from SkipCount() == s, the first s return false and leave
\* s minus their number, and the next one returns true and is the one that
\* derives a skip count.
C9_SkipThenSample ==
    (pc = "ok" /\ op = "Trial" /\ Ne(Probability(f), Zero)) =>
        /\ streak <= streakFrom + 1
        /\ streak <= streakFrom =>
               /\ ~ret /\ ~derived
               /\ SkipCount(f) = streakFrom - streak
               /\ SkipCount(f) = pre.skipCount - 1
               /\ r.pos = pre.pos
        /\ streak = streakFrom + 1 =>
               ret /\ derived /\ pre.skipCount = 0

\* C9's case: from SkipCount() == s >= 2, s Trial() calls have returned
\* false and call s + 1 has returned true.
C9_Witness ==
    /\ pc = "ok" /\ op = "Trial" /\ Ne(Probability(f), Zero)
    /\ streakFrom >= 2 /\ streak = streakFrom + 1 /\ ret

====
